---- MODULE Spec2Model ----
(***************************************************************************)
(* Model of bin/plugin/lib/milestone.js: getMilestoneByTitle and           *)
(* getIssuesByMilestone, each an async function that talks to an Octokit   *)
(* REST client.  The client (getMilestone, paginate.iterator) is the       *)
(* environment: every request it is given is answered, nondeterministically,*)
(* by a page of data or by a thrown error.                                 *)
(*                                                                         *)
(* JavaScript strings that the code inspects character by character        *)
(* (titles, release names) are sequences of one-character strings.         *)
(* Timestamps are ISO-8601 strings that the code only hands to new Date(). *)
(***************************************************************************)
EXTENDS Integers, Sequences, FiniteSets, TLC

VARIABLES
    op,                     \* which exported function was called
    args,                   \* its arguments (owner and repo are passed through untouched)
    pc,                     \* position of the async function
    requests,               \* log of the requests handed to the client, in order
    hasNext,                \* per paginated endpoint: the iterator has a further page to request
    thrown,                 \* the error the client threw and the request it failed, or NoError
    result,                 \* settlement of the returned promise
    milestonesSeen,         \* milestone pages yielded by the iterator so far
    milestoneTitle,         \* milestoneResponse.data.title
    series,                 \* const series
    latestReleaseInSeries,  \* let latestReleaseInSeries
    firstInSeriesReceived,  \* first release, in arrival order, whose name starts with series
    options,                \* const options (list-issues query)
    pulls,                  \* const pulls
    issuePagesSeen          \* issue pages yielded by the iterator so far

vars == <<op, args, pc, requests, hasNext, thrown, result, milestonesSeen, milestoneTitle,
          series, latestReleaseInSeries, firstInSeriesReceived, options, pulls,
          issuePagesSeen>>

----------------------------------------------------------------------------
(* Bounds of the model *)

MaxPages == 2
MaxPerPage == 2
MaxTotal == 4
MaxTitleParts == 3

----------------------------------------------------------------------------
(* JavaScript values *)

Undefined == [undefined |-> TRUE]
Null == "<null>"
NoError == [none |-> TRUE]
Errors == {"HttpError 404", "HttpError 500"}

\* ToBoolean of a value that is null or a string
Truthy(v) == v # Null /\ v # ""

Last(s) == s[Len(s)]

RECURSIVE Flatten(_)
Flatten(pages) ==
    IF pages = <<>> THEN <<>> ELSE Head(pages) \o Flatten(Tail(pages))

RECURSIVE Concat(_)
Concat(parts) ==
    IF parts = <<>> THEN <<>> ELSE Head(parts) \o Concat(Tail(parts))

\* All sequences over S of length at most n
SeqUpTo(S, n) == UNION {[1..k -> S] : k \in 0..n}

\* String.prototype.startsWith
StartsWith(s, p) == Len(p) <= Len(s) /\ SubSeq(s, 1, Len(p)) = p

\* String.prototype.indexOf, 1-based, 0 when p does not occur in s
IndexOf(s, p) ==
    LET hits == {i \in 1..(Len(s) - Len(p) + 1) : SubSeq(s, i, i + Len(p) - 1) = p}
    IN IF hits = {} THEN 0 ELSE CHOOSE i \in hits : \A j \in hits : i <= j

\* String.prototype.replace with a string pattern: the first occurrence only
StrReplace(s, p, r) ==
    LET i == IndexOf(s, p)
    IN IF i = 0 THEN s
       ELSE SubSeq(s, 1, i - 1) \o r \o SubSeq(s, i + Len(p), Len(s))

\* new Date(string): the instant the string denotes (in hours of one day; the
\* code only compares instants), or an Invalid Date
DateParse(s) ==
    CASE s = "2023-07-05T09:00:00Z"      -> [valid |-> TRUE, time |-> 9]
      [] s = "2023-07-05T10:00:00Z"      -> [valid |-> TRUE, time |-> 10]
      [] s = "2023-07-05T12:00:00+02:00" -> [valid |-> TRUE, time |-> 10]
      [] s = "2023-07-05T11:00:00Z"      -> [valid |-> TRUE, time |-> 11]
      [] OTHER                           -> [valid |-> FALSE, time |-> 0]

\* a < b on two Date objects: compares the time values, false when either is NaN
DateLess(a, b) == a.valid /\ b.valid /\ a.time < b.time

----------------------------------------------------------------------------
(* Data the remote API can return *)

Prefix == <<"G", "u", "t", "e", "n", "b", "e", "r", "g", " ">>

TitleParts ==
    { Prefix,
      <<"G", "u", "t", "e", "n", "b", "e", "r", "g">>,
      <<" ">>,
      <<"1", "6", ".", "2">>,
      <<"g", "u", "t", "e", "n", "b", "e", "r", "g", " ">> }

\* Every title made of at most MaxTitleParts parts
Titles == {Concat(ps) : ps \in SeqUpTo(TitleParts, MaxTitleParts)}

\* Titles of the milestones the collector is run on
CollectorTitles ==
    { Prefix \o <<"1", "6", ".", "2">>,
      Prefix \o <<"1", "6">> }

Releases ==
    { [name |-> <<"1", "6", ".", "2", ".", "1">>, published_at |-> "2023-07-05T10:00:00Z"],
      [name |-> <<"1", "6", ".", "2">>,           published_at |-> Null],
      [name |-> <<"1", "6", ".", "1">>,           published_at |-> "2023-07-05T09:00:00Z"] }

Issues ==
    { [number |-> 1, closed_at |-> Null],
      [number |-> 2, closed_at |-> "2023-07-05T09:00:00Z"],
      [number |-> 3, closed_at |-> "2023-07-05T12:00:00+02:00"],
      [number |-> 4, closed_at |-> "2023-07-05T11:00:00Z"] }

Milestones ==
    { [number |-> 1, title |-> Prefix \o <<"1", "6", ".", "2">>],
      [number |-> 2, title |-> Prefix \o <<"1", "6", ".", "2">>],
      [number |-> 3, title |-> Prefix \o <<"1", "6">>] }

LookupTitles ==
    { Prefix \o <<"1", "6", ".", "2">>,
      Prefix \o <<"1", "6", ".", "3">> }

CollectorCalls ==
    { [milestone |-> 1, state |-> "closed"],
      [milestone |-> 2, state |-> "<undefined>"] }

\* A page of at most MaxPerPage records
Pages(S) == SeqUpTo(S, MaxPerPage)

\* The requests of the log that went to one endpoint
RequestsTo(endpoint) == SelectSeq(requests, LAMBDA r : r.endpoint = endpoint)

Request(endpoint) == [endpoint |-> endpoint, page |-> Len(RequestsTo(endpoint)) + 1]

\* The client throws e on the request it was last given
Throws(e) == [error |-> e, request |-> Last(requests)]

Value(v) == [kind |-> "value", value |-> v]
Failure(e) == [kind |-> "error", error |-> e]
Pending == [kind |-> "pending"]

----------------------------------------------------------------------------
(* getMilestoneByTitle *)

\* Variant: the scan keeps the last milestone of the page with the title
FindByTitleLast(milestones, title) ==
    LET hits == {i \in 1..Len(milestones) : milestones[i].title = title}
    IN IF hits = {} THEN Undefined
       ELSE milestones[CHOOSE i \in hits : \A j \in hits : j <= i]

\* the inner for-of loop: the first milestone of the page whose title === title
FindByTitle(milestones, title) ==
    LET hits == {i \in 1..Len(milestones) : milestones[i].title = title}
    IN IF hits = {} THEN Undefined
       ELSE milestones[CHOOSE i \in hits : \A j \in hits : i <= j]

\* Variant: the error is caught and a new one is thrown in its place
PropagateWrapped(e) == Failure("Error: request failed")

\* A rejected await is not caught: the function's promise rejects with the same error
Propagate(e) == Failure(e)

InitCommon ==
    /\ requests = <<>>
    /\ hasNext = [e \in {"listMilestones", "listReleases", "listForRepo"} |-> TRUE]
    /\ thrown = NoError
    /\ result = Pending
    /\ milestonesSeen = <<>>
    /\ milestoneTitle = <<>>
    /\ series = <<>>
    /\ latestReleaseInSeries = Undefined
    /\ firstInSeriesReceived = Undefined
    /\ options = Undefined
    /\ pulls = <<>>
    /\ issuePagesSeen = <<>>

InitLookup ==
    /\ op = "getMilestoneByTitle"
    /\ args \in [title : LookupTitles]
    /\ pc = "lookupNext"
    /\ InitCommon

\* the iterator has a further page: it requests it and the function is suspended
\* (the model follows at most MaxPages pages of a listing)
LookupRequestPage ==
    /\ pc = "lookupNext"
    /\ hasNext["listMilestones"]
    /\ Len(RequestsTo("listMilestones")) < MaxPages
    /\ requests' = Append(requests, Request("listMilestones"))
    /\ pc' = "lookupAwait"
    /\ UNCHANGED <<op, args, hasNext, thrown, result, milestonesSeen, milestoneTitle,
                   series, latestReleaseInSeries, firstInSeriesReceived, options, pulls,
                   issuePagesSeen>>

\* Variant: the scan records a match but the loop over the pages goes on
LookupResponseNoEarlyExit ==
    /\ pc = "lookupAwait"
    /\ \E milestones \in Pages(Milestones), more \in BOOLEAN :
          /\ Len(Flatten(milestonesSeen)) + Len(milestones) <= MaxTotal
          /\ milestonesSeen' = Append(milestonesSeen, milestones)
          /\ hasNext' = [hasNext EXCEPT !["listMilestones"] = more]
          /\ pc' = "lookupNext"
          /\ result' = result
    /\ UNCHANGED <<op, args, requests, thrown, milestoneTitle, series,
                   latestReleaseInSeries, firstInSeriesReceived, options, pulls,
                   issuePagesSeen>>

\* the page arrives and is scanned
LookupResponse ==
    /\ pc = "lookupAwait"
    /\ \E milestones \in Pages(Milestones), more \in BOOLEAN :
          /\ Len(Flatten(milestonesSeen)) + Len(milestones) <= MaxTotal
          /\ milestonesSeen' = Append(milestonesSeen, milestones)
          /\ hasNext' = [hasNext EXCEPT !["listMilestones"] = more]
          /\ LET milestone == FindByTitle(milestones, args.title)
             IN IF milestone # Undefined
                THEN pc' = "done" /\ result' = Value(milestone)
                ELSE pc' = "lookupNext" /\ result' = result
    /\ UNCHANGED <<op, args, requests, thrown, milestoneTitle, series,
                   latestReleaseInSeries, firstInSeriesReceived, options, pulls,
                   issuePagesSeen>>

\* the request fails
LookupPageFails ==
    /\ pc = "lookupAwait"
    /\ \E e \in Errors :
          /\ thrown' = Throws(e)
          /\ result' = Propagate(e)
    /\ pc' = "failed"
    /\ UNCHANGED <<op, args, requests, hasNext, milestonesSeen, milestoneTitle, series,
                   latestReleaseInSeries, firstInSeriesReceived, options, pulls,
                   issuePagesSeen>>

\* the iterator is exhausted
LookupExhausted ==
    /\ pc = "lookupNext"
    /\ ~hasNext["listMilestones"]
    /\ pc' = "done"
    /\ result' = Value(Undefined)
    /\ UNCHANGED <<op, args, requests, hasNext, thrown, milestonesSeen, milestoneTitle,
                   series, latestReleaseInSeries, firstInSeriesReceived, options, pulls,
                   issuePagesSeen>>

----------------------------------------------------------------------------
(* getIssuesByMilestone *)

\* milestoneResponse.data.title.replace( 'Gutenberg ', '' )
Series(title) == StrReplace(title, Prefix, <<>>)

\* Variant: the last release of the page whose name starts with s
FindLastInSeries(releasesPage, s) ==
    LET hits == {i \in 1..Len(releasesPage) : StartsWith(releasesPage[i].name, s)}
    IN IF hits = {} THEN Undefined
       ELSE releasesPage[CHOOSE i \in hits : \A j \in hits : j <= i]

\* releasesPage.data.find( ( release ) => release.name.startsWith( series ) )
\* (Array.prototype.find: the first element that passes the test, else undefined)
FindInSeries(releasesPage, s) ==
    LET hits == {i \in 1..Len(releasesPage) : StartsWith(releasesPage[i].name, s)}
    IN IF hits = {} THEN Undefined
       ELSE releasesPage[CHOOSE i \in hits : \A j \in hits : i <= j]

\* The first release of a page, in the order the API gave, whose name starts with s
FirstStartingWith(releasesPage, s) ==
    IF \E i \in 1..Len(releasesPage) : StartsWith(releasesPage[i].name, s)
    THEN releasesPage[CHOOSE i \in 1..Len(releasesPage) :
                        /\ StartsWith(releasesPage[i].name, s)
                        /\ \A j \in 1..(i - 1) : ~StartsWith(releasesPage[j].name, s)]
    ELSE Undefined

\* Variant: since is added only when the release found has a publish time
IssueOptionsSinceIfPublished(milestone, state, latest) ==
    IF latest # Undefined /\ Truthy(latest.published_at)
    THEN [milestone |-> milestone, state |-> state, since |-> latest.published_at]
    ELSE [milestone |-> milestone, state |-> state]

\* the list-issues query; the spread adds since only when a release was found
IssueOptions(milestone, state, latest) ==
    IF latest # Undefined
    THEN [milestone |-> milestone, state |-> state, since |-> latest.published_at]
    ELSE [milestone |-> milestone, state |-> state]

\* Variant: pulls.unshift( ...issues )
PushAllFront(arr, issues) == issues \o arr

\* pulls.push( ...issues )
PushAll(arr, issues) == arr \o issues

\* Variant: <= in place of <
ClosedAtOrAfter(pull, publishedAt) ==
    /\ Truthy(pull.closed_at)
    /\ LET closedAt == DateParse(pull.closed_at)
       IN publishedAt.valid /\ closedAt.valid /\ publishedAt.time <= closedAt.time

\* the predicate of pulls.filter
ClosedAfter(pull, publishedAt) ==
    /\ Truthy(pull.closed_at)
    /\ DateLess(publishedAt, DateParse(pull.closed_at))

\* Variant: without a published release the never-closed records are still dropped
ReturnValueClosedOnly(latest, accumulated) ==
    IF latest # Undefined /\ Truthy(latest.published_at)
    THEN LET latestReleasePublishedAtTimestamp == DateParse(latest.published_at)
         IN SelectSeq(accumulated,
                      LAMBDA pull : Truthy(pull.closed_at)
                                    /\ DateLess(latestReleasePublishedAtTimestamp,
                                                DateParse(pull.closed_at)))
    ELSE SelectSeq(accumulated, LAMBDA pull : Truthy(pull.closed_at))

\* the value returned once every issue page is in
ReturnValue(latest, accumulated) ==
    IF latest # Undefined /\ Truthy(latest.published_at)
    THEN LET latestReleasePublishedAtTimestamp == DateParse(latest.published_at)
         IN SelectSeq(accumulated,
                      LAMBDA pull : ClosedAfter(pull, latestReleasePublishedAtTimestamp))
    ELSE accumulated

InitCollect ==
    /\ op = "getIssuesByMilestone"
    /\ args \in CollectorCalls
    /\ pc = "getMilestone"
    /\ InitCommon

\* await octokit.issues.getMilestone( ... ): the request goes out
RequestMilestone ==
    /\ pc = "getMilestone"
    /\ requests' = Append(requests, Request("getMilestone"))
    /\ pc' = "awaitMilestone"
    /\ UNCHANGED <<op, args, hasNext, thrown, result, milestonesSeen, milestoneTitle,
                   series, latestReleaseInSeries, firstInSeriesReceived, options, pulls,
                   issuePagesSeen>>

\* the milestone arrives; the series is derived from its title
MilestoneResponse(titles) ==
    /\ pc = "awaitMilestone"
    /\ \E title \in titles :
          /\ milestoneTitle' = title
          /\ series' = Series(title)
    /\ pc' = "releasesNext"
    /\ UNCHANGED <<op, args, requests, hasNext, thrown, result, milestonesSeen,
                   latestReleaseInSeries, firstInSeriesReceived, options, pulls,
                   issuePagesSeen>>

\* Variant: the failure of the get-milestone request is swallowed
MilestoneFailsIgnored ==
    /\ pc = "awaitMilestone"
    /\ \E e \in Errors : thrown' = Throws(e)
    /\ pc' = "releasesNext"
    /\ UNCHANGED <<op, args, requests, hasNext, result, milestonesSeen, milestoneTitle,
                   series, latestReleaseInSeries, firstInSeriesReceived, options, pulls,
                   issuePagesSeen>>

\* the get-milestone request fails (unknown ID, transport error)
MilestoneFails ==
    /\ pc = "awaitMilestone"
    /\ \E e \in Errors :
          /\ thrown' = Throws(e)
          /\ result' = Propagate(e)
    /\ pc' = "failed"
    /\ UNCHANGED <<op, args, requests, hasNext, milestonesSeen, milestoneTitle, series,
                   latestReleaseInSeries, firstInSeriesReceived, options, pulls,
                   issuePagesSeen>>

ReleasesRequestPage ==
    /\ pc = "releasesNext"
    /\ hasNext["listReleases"]
    /\ Len(RequestsTo("listReleases")) < MaxPages
    /\ requests' = Append(requests, Request("listReleases"))
    /\ pc' = "releasesAwait"
    /\ UNCHANGED <<op, args, hasNext, thrown, result, milestonesSeen, milestoneTitle,
                   series, latestReleaseInSeries, firstInSeriesReceived, options, pulls,
                   issuePagesSeen>>

\* a release page arrives: find, then break (and build the issue query) or go on
ReleasesResponse ==
    /\ pc = "releasesAwait"
    /\ \E releasesPage \in Pages(Releases), more \in BOOLEAN :
          LET found == FindInSeries(releasesPage, series)
          IN /\ hasNext' = [hasNext EXCEPT !["listReleases"] = more]
             /\ latestReleaseInSeries' = found
             /\ firstInSeriesReceived' =
                    IF firstInSeriesReceived = Undefined
                    THEN FirstStartingWith(releasesPage, series)
                    ELSE firstInSeriesReceived
             /\ IF found # Undefined
                THEN /\ options' = IssueOptions(args.milestone, args.state, found)
                     /\ pc' = "issuesNext"
                ELSE /\ options' = options
                     /\ pc' = "releasesNext"
    /\ UNCHANGED <<op, args, requests, thrown, result, milestonesSeen, milestoneTitle,
                   series, pulls, issuePagesSeen>>

ReleasesPageFails ==
    /\ pc = "releasesAwait"
    /\ \E e \in Errors :
          /\ thrown' = Throws(e)
          /\ result' = Propagate(e)
    /\ pc' = "failed"
    /\ UNCHANGED <<op, args, requests, hasNext, milestonesSeen, milestoneTitle, series,
                   latestReleaseInSeries, firstInSeriesReceived, options, pulls,
                   issuePagesSeen>>

\* the release iterator is exhausted: the issue query is built
ReleasesExhausted ==
    /\ pc = "releasesNext"
    /\ ~hasNext["listReleases"]
    /\ options' = IssueOptions(args.milestone, args.state, latestReleaseInSeries)
    /\ pc' = "issuesNext"
    /\ UNCHANGED <<op, args, requests, hasNext, thrown, result, milestonesSeen,
                   milestoneTitle, series, latestReleaseInSeries, firstInSeriesReceived,
                   pulls, issuePagesSeen>>

IssuesRequestPage ==
    /\ pc = "issuesNext"
    /\ hasNext["listForRepo"]
    /\ Len(RequestsTo("listForRepo")) < MaxPages
    /\ requests' = Append(requests, Request("listForRepo"))
    /\ pc' = "issuesAwait"
    /\ UNCHANGED <<op, args, hasNext, thrown, result, milestonesSeen, milestoneTitle,
                   series, latestReleaseInSeries, firstInSeriesReceived, options, pulls,
                   issuePagesSeen>>

\* an issue page arrives and is pushed onto pulls
IssuesResponse ==
    /\ pc = "issuesAwait"
    /\ \E issues \in Pages(Issues), more \in BOOLEAN :
          /\ Len(Flatten(issuePagesSeen)) + Len(issues) <= MaxTotal
          /\ hasNext' = [hasNext EXCEPT !["listForRepo"] = more]
          /\ issuePagesSeen' = Append(issuePagesSeen, issues)
          /\ pulls' = PushAll(pulls, issues)
    /\ pc' = "issuesNext"
    /\ UNCHANGED <<op, args, requests, thrown, result, milestonesSeen, milestoneTitle,
                   series, latestReleaseInSeries, firstInSeriesReceived, options>>

IssuesPageFails ==
    /\ pc = "issuesAwait"
    /\ \E e \in Errors :
          /\ thrown' = Throws(e)
          /\ result' = Propagate(e)
    /\ pc' = "failed"
    /\ UNCHANGED <<op, args, requests, hasNext, milestonesSeen, milestoneTitle, series,
                   latestReleaseInSeries, firstInSeriesReceived, options, pulls,
                   issuePagesSeen>>

\* the issue iterator is exhausted: filter and return
IssuesExhausted ==
    /\ pc = "issuesNext"
    /\ ~hasNext["listForRepo"]
    /\ result' = Value(ReturnValue(latestReleaseInSeries, pulls))
    /\ pc' = "done"
    /\ UNCHANGED <<op, args, requests, hasNext, thrown, milestonesSeen, milestoneTitle,
                   series, latestReleaseInSeries, firstInSeriesReceived, options, pulls,
                   issuePagesSeen>>

----------------------------------------------------------------------------
(* Specifications *)

Init == InitLookup \/ InitCollect

Next ==
    \/ LookupRequestPage
    \/ LookupResponse
    \/ LookupPageFails
    \/ LookupExhausted
    \/ RequestMilestone
    \/ MilestoneResponse(CollectorTitles)
    \/ MilestoneFails
    \/ ReleasesRequestPage
    \/ ReleasesResponse
    \/ ReleasesPageFails
    \/ ReleasesExhausted
    \/ IssuesRequestPage
    \/ IssuesResponse
    \/ IssuesPageFails
    \/ IssuesExhausted

Spec == Init /\ [][Next]_vars

\* The collector up to the derivation of the series, over every title of Titles
NextSeries ==
    \/ RequestMilestone
    \/ MilestoneResponse(Titles)
    \/ MilestoneFails

SpecSeries == InitCollect /\ [][NextSeries]_vars

----------------------------------------------------------------------------
(* Properties of getMilestoneByTitle *)

Lookup == op = "getMilestoneByTitle"
Collect == op = "getIssuesByMilestone"

\* positions, in arrival order, of the received milestones titled args.title
TitledAt == {i \in 1..Len(Flatten(milestonesSeen)) : Flatten(milestonesSeen)[i].title = args.title}

HasTitle(milestones) == \E i \in 1..Len(milestones) : milestones[i].title = args.title

\* C1: when getMilestoneByTitle returns, the result is the first milestone in
\* page order (earliest page, earliest position) whose title equals the target;
\* if no received milestone has the title the result is undefined, and then
\* the iterator has no further page.
LookupReturnsFirstMatch ==
    (Lookup /\ pc = "done") =>
        /\ result.kind = "value"
        /\ IF TitledAt = {}
           THEN result.value = Undefined /\ ~hasNext["listMilestones"]
           ELSE result.value =
                    Flatten(milestonesSeen)[CHOOSE i \in TitledAt : \A j \in TitledAt : i <= j]

\* a lookup that returned a milestone from the second page while a later
\* milestone carries the same title
LookupReturnsFirstMatchWitness ==
    /\ Lookup /\ pc = "done"
    /\ Len(milestonesSeen) = 2
    /\ Cardinality(TitledAt) = 2
    /\ result.value # Undefined
    /\ ~HasTitle(milestonesSeen[1])
    /\ milestonesSeen[1] # <<>>

\* a lookup that found nothing after two pages
LookupAbsentWitness ==
    /\ Lookup /\ pc = "done"
    /\ Len(Flatten(milestonesSeen)) = 3
    /\ result.value = Undefined

\* C10: milestone pages are requested one at a time, in order; page k+1 is
\* requested only after page k arrived and held no milestone with the target
\* title, and after a page holding one, no further page is requested.
LookupSequentialEarlyExit ==
    Lookup =>
        LET n == Len(requests)
        IN /\ \A k \in 1..n : requests[k] = [endpoint |-> "listMilestones", page |-> k]
           /\ Len(milestonesSeen) <= n
           /\ n <= Len(milestonesSeen) + 1
           /\ (pc = "lookupAwait") = (n = Len(milestonesSeen) + 1 /\ thrown = NoError)
           /\ \A k \in 2..n : /\ k - 1 <= Len(milestonesSeen)
                              /\ ~HasTitle(milestonesSeen[k - 1])
           /\ \A k \in 1..Len(milestonesSeen) : HasTitle(milestonesSeen[k]) => n = k

\* the second page held the title, a further page existed, and none was requested
LookupSequentialEarlyExitWitness ==
    /\ Lookup /\ pc = "done"
    /\ Len(requests) = 2
    /\ HasTitle(milestonesSeen[2])
    /\ hasNext["listMilestones"]

----------------------------------------------------------------------------
(* Properties of getIssuesByMilestone *)

RECURSIVE IsSubsequence(_, _)
IsSubsequence(a, b) ==
    IF a = <<>> THEN TRUE
    ELSE IF b = <<>> THEN FALSE
    ELSE IF Head(a) = Head(b) THEN IsSubsequence(Tail(a), Tail(b))
    ELSE IsSubsequence(a, Tail(b))

\* the instant of closed is strictly later than the instant of published
StrictlyLater(closed, published) ==
    /\ closed # Null
    /\ published # Null
    /\ DateParse(closed).valid
    /\ DateParse(published).valid
    /\ DateParse(closed).time > DateParse(published).time

AllClosedAfter(records, published) ==
    \A i \in 1..Len(records) : StrictlyLater(records[i].closed_at, published)

Returned == Collect /\ pc = "done"

\* C2 as stated: whenever a matching release was found, whatever its publish
\* time, every returned record was closed strictly after that publish time.
FilteredWheneverReleaseFound ==
    (Returned /\ latestReleaseInSeries # Undefined) =>
        AllClosedAfter(result.value, latestReleaseInSeries.published_at)

\* C2 amended: whenever a matching release with a non-empty publish time was
\* found, every returned record has a non-null closed-at strictly later than
\* that publish time, and every accumulated record closed later is returned.
FilteredWhenReleasePublished ==
    (Returned /\ latestReleaseInSeries # Undefined
              /\ Truthy(latestReleaseInSeries.published_at)) =>
        /\ result.kind = "value"
        /\ AllClosedAfter(result.value, latestReleaseInSeries.published_at)
        /\ \A i \in 1..Len(pulls) :
              StrictlyLater(pulls[i].closed_at, latestReleaseInSeries.published_at)
                  => \E j \in 1..Len(result.value) : result.value[j] = pulls[i]

\* records closed before, at (another spelling of the same instant) and after
\* the publish time were accumulated, and only the last is returned
FilteredWhenReleasePublishedWitness ==
    /\ Returned
    /\ latestReleaseInSeries # Undefined
    /\ latestReleaseInSeries.published_at = "2023-07-05T10:00:00Z"
    /\ \E i, j, k, l \in 1..Len(pulls) :
          /\ pulls[i].closed_at = "2023-07-05T09:00:00Z"
          /\ pulls[j].closed_at = "2023-07-05T12:00:00+02:00"
          /\ pulls[k].closed_at = "2023-07-05T11:00:00Z"
          /\ pulls[l].closed_at = Null
    /\ Len(result.value) = 1

\* C3: when no received release has a name starting with the series, the
\* result is the whole accumulated sequence of every issue page.
UnfilteredWithoutRelease ==
    (Returned /\ firstInSeriesReceived = Undefined) =>
        result = Value(Flatten(issuePagesSeen))

\* releases were listed, none matched, and a never-closed record is returned
UnfilteredWithoutReleaseWitness ==
    /\ Returned
    /\ firstInSeriesReceived = Undefined
    /\ Len(RequestsTo("listReleases")) = 2
    /\ Len(issuePagesSeen) = 2
    /\ Len(result.value) = 4
    /\ \E i \in 1..Len(result.value) : result.value[i].closed_at = Null

\* C4: pulls is the concatenation of the issue pages in arrival order, and the
\* returned sequence is an order-preserving subsequence of it.
ApiOrderPreserved ==
    Collect =>
        /\ pulls = Flatten(issuePagesSeen)
        /\ (pc = "done" => /\ result.kind = "value"
                           /\ IsSubsequence(result.value, Flatten(issuePagesSeen)))

\* two pages of two records each, of which the filter kept two or three
ApiOrderPreservedWitness ==
    /\ Returned
    /\ Len(issuePagesSeen) = 2
    /\ Len(issuePagesSeen[1]) = 2
    /\ Len(issuePagesSeen[2]) = 2
    /\ issuePagesSeen[1] # issuePagesSeen[2]
    /\ Len(result.value) \in {2, 3}

\* C5: if the get-milestone request fails, the operation ends with that error
\* and neither a list-releases nor a list-issues request is ever issued.
MilestoneFailureAborts ==
    /\ (Collect /\ thrown # NoError /\ thrown.request.endpoint = "getMilestone") =>
          /\ pc = "failed"
          /\ result = Failure(thrown.error)
          /\ requests = <<[endpoint |-> "getMilestone", page |-> 1]>>
    /\ (Collect /\ Len(requests) > 1) => milestoneTitle # <<>>

MilestoneFailureAbortsWitness ==
    /\ Collect
    /\ pc = "failed"
    /\ thrown # NoError
    /\ thrown.request.endpoint = "getMilestone"

\* C7: a failure of the client on any request ends the operation with that
\* error unchanged; no value is returned, and the failed request is the last
\* one issued and was issued once.
FailureAbortsOperation ==
    /\ (thrown # NoError) = (pc = "failed")
    /\ thrown # NoError =>
          /\ result = Failure(thrown.error)
          /\ Last(requests) = thrown.request
          /\ Cardinality({i \in 1..Len(requests) : requests[i] = thrown.request}) = 1

\* the second issue page failed after records had been accumulated
FailureAbortsOperationWitness ==
    /\ Collect
    /\ pc = "failed"
    /\ thrown.request = [endpoint |-> "listForRepo", page |-> 2]
    /\ Len(pulls) = 2

\* the second milestone page failed
FailureAbortsLookupWitness ==
    /\ Lookup
    /\ pc = "failed"
    /\ thrown.request = [endpoint |-> "listMilestones", page |-> 2]

\* C8: the release chosen is the first received release whose name starts
\* with the series; once one was received no further release page is
\* requested; and if the release pages run out without one, the chosen
\* release is undefined from then on.
ReleaseSearchFirstMatch ==
    Collect =>
        /\ latestReleaseInSeries = firstInSeriesReceived
        /\ latestReleaseInSeries # Undefined =>
              /\ StartsWith(latestReleaseInSeries.name, series)
              /\ pc \in {"issuesNext", "issuesAwait", "done", "failed"}
              /\ Last(RequestsTo("listReleases")).page = Len(RequestsTo("listReleases"))
        /\ (pc \in {"issuesNext", "issuesAwait", "done"} /\ firstInSeriesReceived = Undefined) =>
              ~hasNext["listReleases"]
        /\ (pc \in {"releasesNext", "releasesAwait"}) => firstInSeriesReceived = Undefined

\* the match came on the second release page, and the iterator had a further
\* page that was never requested
ReleaseSearchFirstMatchWitness ==
    /\ Collect
    /\ pc = "done"
    /\ latestReleaseInSeries # Undefined
    /\ latestReleaseInSeries.published_at = Null
    /\ Len(RequestsTo("listReleases")) = 2
    /\ hasNext["listReleases"]

\* C9: the list-issues query carries the given milestone ID and state, and a
\* since parameter exactly when a matching release was found, equal to that
\* release's publish time.
IssueQueryParameters ==
    Collect =>
        /\ (options # Undefined) = (pc \in {"issuesNext", "issuesAwait", "done"}
                                      \/ (pc = "failed" /\ thrown.request.endpoint = "listForRepo"))
        /\ options # Undefined =>
              /\ options.milestone = args.milestone
              /\ options.state = args.state
              /\ ("since" \in DOMAIN options) = (firstInSeriesReceived # Undefined)
              /\ "since" \in DOMAIN options =>
                    options.since = firstInSeriesReceived.published_at

\* a query built after a release without publish time was found
IssueQueryParametersWitness ==
    /\ Collect
    /\ pc = "issuesAwait"
    /\ "since" \in DOMAIN options
    /\ options.since = Null

\* C6 as stated: the series is the title without its leading "Gutenberg "
\* when the title begins with it, and the title unchanged otherwise.
SeriesIsPrefixStrip ==
    (Collect /\ pc = "releasesNext") =>
        series = IF StartsWith(milestoneTitle, Prefix)
                 THEN SubSeq(milestoneTitle, Len(Prefix) + 1, Len(milestoneTitle))
                 ELSE milestoneTitle

====
